---- MODULE Spec2Model ----
(***************************************************************************)
(* SimConnect bridge (simconnect-bridge/src/main.rs, simconnect_reader.rs) *)
(*                                                                         *)
(* Three kinds of concurrent units share the process:                      *)
(*   - the ingestion thread  (spawn / run_simconnect_loop /                *)
(*     update_snapshot), sole owner of the StateCache,                     *)
(*   - the broadcast publisher (spawn_snapshot_broadcaster),               *)
(*   - one task pair per accepted connection (main's accept loop).         *)
(* The Mutex<BridgeState> and the tokio broadcast channel are the only     *)
(* shared resources.                                                       *)
(*                                                                         *)
(* Numbers: f64 instrument values are modelled by integers.  Masses in kg  *)
(* are fixed-point, in units of 10^-8 kg, so that the pound-to-kilogram    *)
(* conversion is exact.  Time is in whole seconds.                         *)
(* Option<T>: None is the empty tuple, Some(x) the one-element tuple.      *)
(***************************************************************************)
EXTENDS Integers, Sequences, FiniteSets, TLC

VARIABLES
  now,            \* wall clock / Instant, seconds
  snapshot,       \* BridgeState.snapshot, guarded by the mutex
  lock,           \* holder of the Mutex<BridgeState>: "free", "ingest", "pub"
  ingPc,          \* position of the ingestion thread
  cache,          \* StateCache of the running run_simconnect_loop
  frame,          \* DataFrame handed to update_snapshot
  last_dispatch,  \* Instant of the last accepted frame or re-request
  wakeAt,         \* end of the supervisor's thread::sleep(RETRY_DELAY)
  pubPc,          \* position of the broadcast publisher
  pubCopy,        \* the publisher's clone of the snapshot
  head,           \* number of messages sent on the broadcast channel
  sess,           \* per connection slot: "idle", "handshake", "open", "closing"
  fwd,            \* per slot, writer_task: "none", "recv", "sending", "exited"
  rxLive,         \* per slot: the broadcast Receiver exists
  rxNext,         \* per slot: the Receiver's cursor (next position to read)
  payload,        \* per slot: tick the forwarder is writing to the socket
  sent,           \* per slot: ticks written to the socket, in order
  stable,         \* history: stored fields (time excluded) at the last update boundary
  copy_base,      \* history: value of stable when pubCopy was taken
  prev_ground,    \* history: ground state of the previous frame of the process
  first_of_conn,  \* history: no frame of the current connection was processed yet
  proc_baseline,  \* history: fuel of the first engines-running frame of the process
  conn_baseline,  \* history: fuel of the first engines-running frame of the connection
  failedAt,       \* history: time of the last source failure
  pub_time,       \* history: time field of the message last sent on the channel
  rep_base,       \* history: during a call given the previous call's frame again,
                  \*          the StateCache that call left
  rereqs,         \* history: times of the re-requests since the last data frame
  conn_seen       \* history: what the frames of the current connection were:
                  \*          fast, one on the ground above 35 kt;
                  \*          roll, one published as "Takeoff Roll"

ingVars   == <<ingPc, cache, frame, last_dispatch, wakeAt>>
storeVars == <<snapshot, lock>>
pubVars   == <<pubPc, pubCopy, copy_base, head>>
sessVars  == <<sess, fwd, rxLive, rxNext, payload, sent>>
histVars  == <<stable, prev_ground, first_of_conn, proc_baseline, conn_baseline, failedAt,
               pub_time, rep_base, rereqs, conn_seen>>
vars      == <<now, storeVars, ingVars, pubVars, sessVars, histVars>>

----------------------------------------------------------------------------
(* Bounds of the model *)

StartTime == 58      \* the clock starts shortly before a minute boundary
MaxTime   == 61      \* the clock stops here
MaxStaleTime == 64   \* the clock stops here in the staleness specification
MaxTicks  == 4       \* broadcast messages published
NSess     == 2       \* connection slots
BufCap    == 2       \* broadcast buffer slots (the program uses 128, main.rs:55)

(* Program constants *)

RETRY_DELAY     == 2          \* seconds
KG_PER_LB       == 45359237   \* 0.45359237 kg, in units of 10^-8 kg
STALE_AFTER     == 2          \* seconds
GS_ROLL_KT      == 35
GS_START_KT     == 5
CLIMB_ALT_FT    == 10000
VS_BAND_FPM     == 500

None    == <<>>
Some(x) == <<x>>

Slots == 1..NSess

----------------------------------------------------------------------------
(* Data *)

BridgeSnapshotDefault ==
  [ time |-> 0, altitude_ft |-> None, ias_kt |-> None, gs_kt |-> None,
    mach |-> None, vs_fpm |-> None, heading_deg |-> None, lat |-> None,
    lon |-> None, dep_icao |-> None, arr_icao |-> None,
    flightplan_total_nm |-> None, flightplan_remaining_nm |-> None,
    takeoff_roll_time_utc |-> None, phase |-> None, next_wp_id |-> None,
    touchdown_fpm |-> None, fuel_total_kg |-> None, fuel_burn_kg |-> None,
    weight_kg |-> None ]

(* A StateCache that starts on the ground. *)
StateCacheOnGround ==
  [ last_on_ground |-> TRUE, takeoff_roll_time_utc |-> None, fuel_start_kg |-> None ]

StateCacheDefault ==
  [ last_on_ground |-> FALSE, takeoff_roll_time_utc |-> None, fuel_start_kg |-> None ]

(* A DataFrame: g ground flag, e the four combustion flags, gs ground      *)
(* speed, alt altitude, vs vertical speed, fuel total fuel in pounds.      *)
DataFrame(g, e, gs, alt, vs, fuel) ==
  [ altitude_ft |-> alt, ias_kt |-> gs + 3, gs_kt |-> gs, mach |-> alt \div 5000,
    vs_fpm |-> vs, on_ground |-> g,
    eng1_on |-> e[1], eng2_on |-> e[2], eng3_on |-> e[3], eng4_on |-> e[4],
    fuel_total_lb |-> fuel, weight_lb |-> fuel + 20,
    flightplan_total_nm |-> 100, flightplan_remaining_nm |-> 100 - fuel ]

NoFrame == DataFrame(0, <<0, 0, 0, 0>>, 0, 0, 0, 0)

EngOff == <<0, 0, 0, 0>>
EngOn  == <<0, 0, 1, 0>>

(* Frames of the derivation specification: every phase rule and both       *)
(* sides of every threshold.  On the ground the slow frames carry the      *)
(* higher fuel load and the taxi frame a sink rate; in the air the fuel    *)
(* load goes with the altitude.                                            *)
GroundFrames ==
  { DataFrame(1, e, gs, 0, IF gs = 20 THEN -300 ELSE 0, IF gs < 20 THEN 10 ELSE 8) :
      e \in {EngOff, EngOn}, gs \in {0, 5, 20, 35, 40} }
AirFrames ==
  { DataFrame(0, e, 200, alt, vs, IF alt < 10000 THEN 12 ELSE 9) :
      e \in {EngOff, <<1, 0, 0, 0>>}, alt \in {5000, 10000},
      vs \in {-800, -500, 500, 800} }
Frames == GroundFrames \cup AirFrames

(* Frames of the store specification: a takeoff roll and a climb.          *)
SmallFrames ==
  { DataFrame(1, EngOn, 40, 0, -100, 10),
    DataFrame(0, EngOn, 200, 5000, 800, 9) }

(* Frames of the whole-process specification: parked and gliding, engines *)
(* off.                                                                    *)
TinyFrames ==
  { DataFrame(1, EngOff, 0, 0, -100, 10),
    DataFrame(0, EngOff, 200, 5000, 800, 10) }

SansTime(s) == [s EXCEPT !.time = 0]

(* The fields of BridgeSnapshot that no DataFrame field feeds.             *)
PassThrough(s) ==
  <<s.heading_deg, s.lat, s.lon, s.dep_icao, s.arr_icao, s.next_wp_id>>

(* The fields of BridgeSnapshot that update_snapshot assigns.              *)
Derived(s) ==
  <<s.altitude_ft, s.ias_kt, s.gs_kt, s.mach, s.vs_fpm, s.flightplan_total_nm,
    s.flightplan_remaining_nm, s.takeoff_roll_time_utc, s.phase, s.touchdown_fpm,
    s.fuel_total_kg, s.fuel_burn_kg, s.weight_kg>>

(* Stored snapshots handed to update_snapshot before its first write: the  *)
(* default one, and one whose pass-through fields their owner has set.     *)
PopulatedSnapshot ==
  [BridgeSnapshotDefault EXCEPT
     !.heading_deg = Some(270), !.lat = Some(51), !.lon = Some(-1),
     !.dep_icao = Some("EGLL"), !.arr_icao = Some("KJFK"), !.next_wp_id = Some("MERLY")]
StartSnapshots == {BridgeSnapshotDefault, PopulatedSnapshot}

----------------------------------------------------------------------------
(* Clock *)

unix_time_ms == now * 1000

(* Utc::now().format("%H:%MZ"): hour and minute of the day.                *)
FormatHM(t) == <<(t \div 3600) % 24, (t \div 60) % 60>>

Tick ==
  /\ now < MaxTime
  /\ now' = now + 1
  /\ UNCHANGED <<storeVars, ingVars, pubVars, sessVars, histVars>>

(* The clock of the staleness specification, which runs long enough for   *)
(* two re-requests.                                                        *)
TickStale ==
  /\ now < MaxStaleTime
  /\ now' = now + 1
  /\ UNCHANGED <<storeVars, ingVars, pubVars, sessVars, histVars>>

----------------------------------------------------------------------------
(* update_snapshot: the derivation rules, in source order *)

Max0(x) == IF x > 0 THEN x ELSE 0

\* frame.on_ground > 0.5
OnGround(f) == 2 * f.on_ground > 1

\* any of the four combustion flags > 0.5
EnginesOn(f) ==
  \/ 2 * f.eng1_on > 1
  \/ 2 * f.eng2_on > 1
  \/ 2 * f.eng3_on > 1
  \/ 2 * f.eng4_on > 1

FuelTotalKg(f) == f.fuel_total_lb * KG_PER_LB
WeightKg(f)    == f.weight_lb * KG_PER_LB

\* if engines_on && cache.fuel_start_kg.is_none() { cache.fuel_start_kg = Some(fuel_total_kg) }
FuelStart(c, f) ==
  IF EnginesOn(f) /\ c.fuel_start_kg = None
    THEN Some(FuelTotalKg(f))
    ELSE c.fuel_start_kg

FuelBurnKgNoClamp(c, f) ==
  IF c.fuel_start_kg = None
    THEN None
    ELSE Some(c.fuel_start_kg[1] - FuelTotalKg(f))

\* cache.fuel_start_kg.map(|start| (start - fuel_total_kg).max(0.0))
FuelBurnKg(c, f) ==
  IF c.fuel_start_kg = None
    THEN None
    ELSE Some(Max0(c.fuel_start_kg[1] - FuelTotalKg(f)))

\* if cache.last_on_ground && !on_ground
Liftoff(c, f) == c.last_on_ground /\ ~OnGround(f)

\* if !cache.last_on_ground && on_ground
Touchdown(c, f) == ~c.last_on_ground /\ OnGround(f)

TakeoffRollOverwrite(c, f, t) ==
  IF OnGround(f) /\ f.gs_kt > GS_ROLL_KT
    THEN Some(FormatHM(t))
    ELSE c.takeoff_roll_time_utc

(* The marker taken from the threshold on, as the phase is. *)
TakeoffRollFromThreshold(c, f, t) ==
  IF OnGround(f) /\ f.gs_kt >= GS_ROLL_KT /\ c.takeoff_roll_time_utc = None
    THEN Some(FormatHM(t))
    ELSE c.takeoff_roll_time_utc

\* if on_ground && frame.gs_kt > 35.0 && cache.takeoff_roll_time_utc.is_none()
TakeoffRoll(c, f, t) ==
  IF OnGround(f) /\ f.gs_kt > GS_ROLL_KT /\ c.takeoff_roll_time_utc = None
    THEN Some(FormatHM(t))
    ELSE c.takeoff_roll_time_utc

PhaseTaxiFirst(f) ==
  IF ~EnginesOn(f) THEN "Waiting"
  ELSE IF OnGround(f) /\ f.gs_kt < GS_ROLL_KT THEN "Taxiing"
  ELSE IF OnGround(f) /\ f.gs_kt < GS_START_KT THEN "Engine Start"
  ELSE IF OnGround(f) THEN "Takeoff Roll"
  ELSE IF f.altitude_ft < CLIMB_ALT_FT /\ f.vs_fpm > VS_BAND_FPM THEN "Climb"
  ELSE IF f.vs_fpm < -VS_BAND_FPM THEN "Descent"
  ELSE "Cruising"

Phase(f) ==
  IF ~EnginesOn(f) THEN "Waiting"
  ELSE IF OnGround(f) /\ f.gs_kt < GS_START_KT THEN "Engine Start"
  ELSE IF OnGround(f) /\ f.gs_kt < GS_ROLL_KT THEN "Taxiing"
  ELSE IF OnGround(f) THEN "Takeoff Roll"
  ELSE IF f.altitude_ft < CLIMB_ALT_FT /\ f.vs_fpm > VS_BAND_FPM THEN "Climb"
  ELSE IF f.vs_fpm < -VS_BAND_FPM THEN "Descent"
  ELSE "Cruising"

(* Lines 114-134: the takeoff-roll marker, then cache.last_on_ground.      *)
(* The phase is a local of the call; it is computed from the frame alone   *)
(* and used at the final write.                                            *)
AfterChecks(c, f, t) ==
  [c EXCEPT !.takeoff_roll_time_utc = TakeoffRoll(c, f, t),
            !.last_on_ground = OnGround(f)]

(* The stored snapshot replaced by a new one holding the frame's fields.   *)
FinalWriteFresh(s, c, f) ==
  [BridgeSnapshotDefault EXCEPT
            !.altitude_ft = Some(f.altitude_ft),
            !.ias_kt = Some(f.ias_kt),
            !.gs_kt = Some(f.gs_kt),
            !.mach = Some(f.mach),
            !.vs_fpm = Some(f.vs_fpm),
            !.fuel_total_kg = Some(FuelTotalKg(f)),
            !.fuel_burn_kg = FuelBurnKg(c, f),
            !.weight_kg = Some(WeightKg(f)),
            !.flightplan_total_nm = Some(f.flightplan_total_nm),
            !.flightplan_remaining_nm = Some(f.flightplan_remaining_nm),
            !.phase = Some(Phase(f)),
            !.takeoff_roll_time_utc = c.takeoff_roll_time_utc,
            !.touchdown_fpm = s.touchdown_fpm]

(* Lines 136-149: the fields written under the last lock.                  *)
FinalWrite(s, c, f) ==
  [s EXCEPT !.altitude_ft = Some(f.altitude_ft),
            !.ias_kt = Some(f.ias_kt),
            !.gs_kt = Some(f.gs_kt),
            !.mach = Some(f.mach),
            !.vs_fpm = Some(f.vs_fpm),
            !.fuel_total_kg = Some(FuelTotalKg(f)),
            !.fuel_burn_kg = FuelBurnKg(c, f),
            !.weight_kg = Some(WeightKg(f)),
            !.flightplan_total_nm = Some(f.flightplan_total_nm),
            !.flightplan_remaining_nm = Some(f.flightplan_remaining_nm),
            !.phase = Some(Phase(f)),
            !.takeoff_roll_time_utc = c.takeoff_roll_time_utc]

(* The MutexGuard of an `if let Ok(mut guard) = state.lock() { .. }` block *)
(* is dropped at the end of the block.                                     *)
GuardKept    == "ingest"
GuardDropped == "free"

----------------------------------------------------------------------------
(* spawn: the supervisor of the ingestion thread *)

(* if let Err(err) = run_simconnect_loop(..) { eprintln!; thread::sleep(RETRY_DELAY) } *)
OnLoopErrorNoSleep(t) == [pc |-> "connect", wake |-> 0]
OnLoopError(t) == [pc |-> "backoff", wake |-> t + RETRY_DELAY]

(* run_simconnect_loop returns Err.  last_dispatch is set again at line 67  *)
(* before it is next read.                                                 *)
SourceFails ==
  /\ ingPc' = OnLoopError(now).pc
  /\ wakeAt' = OnLoopError(now).wake
  /\ failedAt' = now
  /\ last_dispatch' = 0
  /\ UNCHANGED <<now, storeVars, cache, frame, pubVars, sessVars,
                 stable, prev_ground, first_of_conn, proc_baseline, conn_baseline,
                 pub_time, rep_base, rereqs, conn_seen>>

BackoffDone ==
  /\ ingPc = "backoff"
  /\ now >= wakeAt
  /\ ingPc' = "connect"
  /\ wakeAt' = 0
  /\ UNCHANGED <<now, storeVars, cache, frame, last_dispatch, pubVars,
                 sessVars, histVars>>

----------------------------------------------------------------------------
(* run_simconnect_loop *)

IngGoto(pc) ==
  /\ ingPc' = pc
  /\ UNCHANGED <<now, storeVars, cache, frame, last_dispatch, wakeAt, pubVars,
                 sessVars, histVars>>

\* SimConnect::new(..)?
ConnectOk   == ingPc = "connect" /\ IngGoto("register")
ConnectFail == ingPc = "connect" /\ SourceFails

\* the fourteen sim.add_to_data_definition(..)? calls
RegisterOk   == ingPc = "register" /\ IngGoto("request")
RegisterFail == ingPc = "register" /\ SourceFails

(* The StateCache of the previous connection kept. *)
RequestOkKeepsCache ==
  /\ ingPc = "request"
  /\ ingPc' = "dispatch"
  /\ cache' = cache
  /\ last_dispatch' = now
  /\ first_of_conn' = TRUE
  /\ conn_baseline' = None
  /\ conn_seen' = [fast |-> FALSE, roll |-> FALSE]
  /\ UNCHANGED <<now, storeVars, frame, wakeAt, pubVars, sessVars,
                 stable, prev_ground, proc_baseline, failedAt, pub_time, rep_base, rereqs>>

\* sim.request_data_on_sim_object(..)?; cache = StateCache::default(); last_dispatch = now
RequestOk ==
  /\ ingPc = "request"
  /\ ingPc' = "dispatch"
  /\ cache' = StateCacheDefault
  /\ last_dispatch' = now
  /\ first_of_conn' = TRUE
  /\ conn_baseline' = None
  /\ conn_seen' = [fast |-> FALSE, roll |-> FALSE]
  /\ UNCHANGED <<now, storeVars, frame, wakeAt, pubVars, sessVars,
                 stable, prev_ground, proc_baseline, failedAt, pub_time, rep_base, rereqs>>
RequestFail == ingPc = "request" /\ SourceFails

\* sim.get_next_dispatch()? returns Err
DispatchFail == ingPc = "dispatch" /\ SourceFails

(* cache.last_on_ground assigned before the transition tests. *)
EnterUpdateGroundFirst(f) ==
  LET c1 == [cache EXCEPT !.fuel_start_kg = FuelStart(cache, f),
                          !.last_on_ground = OnGround(f)] IN
  IF Liftoff(c1, f)
    THEN ingPc' = "lock_liftoff" /\ cache' = c1
    ELSE IF Touchdown(c1, f)
      THEN ingPc' = "lock_touchdown" /\ cache' = c1
      ELSE ingPc' = "lock_final" /\ cache' = AfterChecks(c1, f, now)

(* update_snapshot up to its first lock: lines 88-99, then the two         *)
(* transition tests; when neither holds, lines 114-134 follow at once.     *)
EnterUpdate(f) ==
  LET c1 == [cache EXCEPT !.fuel_start_kg = FuelStart(cache, f)] IN
  IF Liftoff(c1, f)
    THEN ingPc' = "lock_liftoff" /\ cache' = c1
    ELSE IF Touchdown(c1, f)
      THEN ingPc' = "lock_touchdown" /\ cache' = c1
      ELSE ingPc' = "lock_final" /\ cache' = AfterChecks(c1, f, now)

\* SimConnectRecv::SimObjectData(data): last_dispatch = now; update_snapshot(..)
DispatchData(FS) ==
  /\ ingPc = "dispatch"
  /\ \E f \in FS :
       /\ frame' = f
       /\ EnterUpdate(f)
       /\ rep_base' = IF f = frame /\ ~first_of_conn THEN Some(cache) ELSE None
  /\ last_dispatch' = now
  /\ rereqs' = <<>>
  /\ UNCHANGED <<now, storeVars, wakeAt, pubVars, sessVars,
                 stable, prev_ground, first_of_conn, proc_baseline, conn_baseline, failedAt,
                 pub_time, conn_seen>>

\* any other dispatch, the source not stale: thread::sleep(20 ms)
DispatchOther ==
  /\ ingPc = "dispatch"
  /\ ~(now - last_dispatch > STALE_AFTER)
  /\ IngGoto("stale_sleep")

(* The request issued again, the staleness clock left as it was. *)
RerequestOkNoReset ==
  /\ ingPc = "dispatch"
  /\ now - last_dispatch > STALE_AFTER
  /\ ingPc' = "stale_sleep"
  /\ rereqs' = Append(rereqs, now)
  /\ UNCHANGED <<now, storeVars, cache, frame, last_dispatch, wakeAt, pubVars, sessVars,
                 stable, prev_ground, first_of_conn, proc_baseline, conn_baseline, failedAt,
                 pub_time, rep_base, conn_seen>>

\* any other dispatch, the source stale: the request is issued again
RerequestOk ==
  /\ ingPc = "dispatch"
  /\ now - last_dispatch > STALE_AFTER
  /\ last_dispatch' = now
  /\ ingPc' = "stale_sleep"
  /\ rereqs' = Append(rereqs, now)
  /\ UNCHANGED <<now, storeVars, cache, frame, wakeAt, pubVars, sessVars,
                 stable, prev_ground, first_of_conn, proc_baseline, conn_baseline, failedAt,
                 pub_time, rep_base, conn_seen>>
RerequestFail ==
  /\ ingPc = "dispatch"
  /\ now - last_dispatch > STALE_AFTER
  /\ SourceFails

StaleSleepDone == ingPc = "stale_sleep" /\ IngGoto("dispatch")

IngLock(at, to) ==
  /\ ingPc = at
  /\ lock = "free"
  /\ lock' = "ingest"
  /\ ingPc' = to
  /\ UNCHANGED <<now, snapshot, cache, frame, last_dispatch, wakeAt, pubVars,
                 sessVars, histVars>>

LockLiftoff   == IngLock("lock_liftoff", "write_liftoff")
LockTouchdown == IngLock("lock_touchdown", "write_touchdown")
LockFinal     == IngLock("lock_final", "write_final")

\* guard.snapshot.touchdown_fpm = None; then the touchdown test
WriteLiftoff ==
  /\ ingPc = "write_liftoff"
  /\ snapshot' = [snapshot EXCEPT !.touchdown_fpm = None]
  /\ lock' = GuardDropped
  /\ IF Touchdown(cache, frame)
       THEN ingPc' = "lock_touchdown" /\ cache' = cache
       ELSE ingPc' = "lock_final" /\ cache' = AfterChecks(cache, frame, now)
  /\ UNCHANGED <<now, frame, last_dispatch, wakeAt, pubVars, sessVars, histVars>>

\* guard.snapshot.touchdown_fpm = Some(frame.vs_fpm); then lines 114-134
WriteTouchdown ==
  /\ ingPc = "write_touchdown"
  /\ snapshot' = [snapshot EXCEPT !.touchdown_fpm = Some(frame.vs_fpm)]
  /\ lock' = GuardDropped
  /\ ingPc' = "lock_final"
  /\ cache' = AfterChecks(cache, frame, now)
  /\ UNCHANGED <<now, frame, last_dispatch, wakeAt, pubVars, sessVars, histVars>>

\* lines 136-149; update_snapshot returns to the dispatch loop
WriteFinal ==
  /\ ingPc = "write_final"
  /\ snapshot' = FinalWrite(snapshot, cache, frame)
  /\ lock' = GuardDropped
  /\ ingPc' = "dispatch"
  /\ stable' = SansTime(snapshot')
  /\ prev_ground' = Some(frame.on_ground = 1)
  /\ first_of_conn' = FALSE
  /\ LET running == \E v \in {frame.eng1_on, frame.eng2_on, frame.eng3_on, frame.eng4_on} : v = 1
         fuel == frame.fuel_total_lb * KG_PER_LB
     IN /\ proc_baseline' = IF proc_baseline = None /\ running THEN Some(fuel) ELSE proc_baseline
        /\ conn_baseline' = IF conn_baseline = None /\ running THEN Some(fuel) ELSE conn_baseline
  /\ rep_base' = None
  /\ conn_seen' =
       [fast |-> conn_seen.fast \/ (frame.on_ground = 1 /\ frame.gs_kt > 35),
        roll |-> conn_seen.roll \/ snapshot'.phase = Some("Takeoff Roll")]
  /\ UNCHANGED <<now, cache, frame, last_dispatch, wakeAt, pubVars, sessVars, failedAt,
                 pub_time, rereqs>>

Ingest(FS) ==
  \/ ConnectOk \/ ConnectFail
  \/ RegisterOk \/ RegisterFail
  \/ RequestOk \/ RequestFail
  \/ DispatchFail
  \/ DispatchData(FS)
  \/ DispatchOther
  \/ RerequestOk \/ RerequestFail
  \/ StaleSleepDone
  \/ LockLiftoff \/ WriteLiftoff
  \/ LockTouchdown \/ WriteTouchdown
  \/ LockFinal \/ WriteFinal
  \/ BackoffDone

----------------------------------------------------------------------------
(* spawn_snapshot_broadcaster *)

\* ticker.tick().await completes
PubTick ==
  /\ pubPc = "tick"
  /\ head < MaxTicks
  /\ pubPc' = "lock"
  /\ UNCHANGED <<now, storeVars, ingVars, pubCopy, copy_base, head, sessVars, histVars>>

\* state.lock()
PubLock ==
  /\ pubPc = "lock"
  /\ lock = "free"
  /\ lock' = "pub"
  /\ pubPc' = "locked"
  /\ UNCHANGED <<now, snapshot, ingVars, pubCopy, copy_base, head, sessVars, histVars>>

\* guard.snapshot.time = unix_time_ms(); guard.snapshot.clone(); the guard is dropped
PubCopy ==
  /\ pubPc = "locked"
  /\ snapshot' = [snapshot EXCEPT !.time = unix_time_ms]
  /\ pubCopy' = snapshot'
  /\ copy_base' = stable
  /\ lock' = "free"
  /\ pubPc' = "send"
  /\ UNCHANGED <<now, ingVars, head, sessVars, histVars>>

(* serde_json::to_string(&msg), then tx.send(payload).  main keeps _rx     *)
(* alive, so the channel always has a receiver and the message is stored;  *)
(* the send never waits.  The clone is a local of the loop body and is     *)
(* dropped at its end.                                                     *)
PubSend ==
  /\ pubPc = "send"
  /\ head' = head + 1
  /\ pubPc' = "tick"
  /\ pubCopy' = BridgeSnapshotDefault
  /\ copy_base' = BridgeSnapshotDefault
  /\ pub_time' = pubCopy.time
  /\ UNCHANGED <<now, storeVars, ingVars, sessVars,
                 stable, prev_ground, first_of_conn, proc_baseline, conn_baseline, failedAt,
                 rep_base, rereqs, conn_seen>>

Publisher == PubTick \/ PubLock \/ PubCopy \/ PubSend

----------------------------------------------------------------------------
(* The broadcast channel (tokio::sync::broadcast, created at main.rs:55)   *)
(* Message k (1-based) sits at position k - 1; the buffer holds the last   *)
(* BufCap positions.  A Receiver is a cursor into the positions.           *)

(* rx.recv() when it completes: the value at the cursor, or Lagged when    *)
(* that position was overwritten; the cursor then moves to the oldest      *)
(* position still held.                                                    *)
Recv(next, hd) ==
  IF next + BufCap < hd
    THEN [ok |-> FALSE, next |-> hd - BufCap, value |-> 0]
    ELSE [ok |-> TRUE, next |-> next + 1, value |-> next + 1]

(* The Receiver of slot s is dropped. *)
DropReceiver(live, s) == [live EXCEPT ![s] = FALSE]

----------------------------------------------------------------------------
(* main: the accept loop and the per-connection tasks *)

\* listener.accept(); tx.subscribe(); tokio::spawn(..)
Accept(s) ==
  /\ sess[s] = "idle"
  /\ sess' = [sess EXCEPT ![s] = "handshake"]
  /\ rxLive' = [rxLive EXCEPT ![s] = TRUE]
  /\ rxNext' = [rxNext EXCEPT ![s] = head]
  /\ UNCHANGED <<now, storeVars, ingVars, pubVars, fwd, payload, sent, histVars>>

\* accept_async(stream) returns Err: the task returns and its captures are dropped
HandshakeFail(s) ==
  /\ sess[s] = "handshake"
  /\ sess' = [sess EXCEPT ![s] = "idle"]
  /\ rxLive' = DropReceiver(rxLive, s)
  /\ rxNext' = [rxNext EXCEPT ![s] = 0]
  /\ UNCHANGED <<now, storeVars, ingVars, pubVars, fwd, payload, sent, histVars>>

\* accept_async(stream) returns Ok: writer_task is spawned with rx and ws_write
HandshakeOk(s) ==
  /\ sess[s] = "handshake"
  /\ sess' = [sess EXCEPT ![s] = "open"]
  /\ fwd' = [fwd EXCEPT ![s] = "recv"]
  /\ UNCHANGED <<now, storeVars, ingVars, pubVars, rxLive, rxNext, payload, sent, histVars>>

(* writer_task: while let Ok(payload) = rx.recv().await.  Any Err ends the *)
(* loop; the task is then over and rx and ws_write are dropped.            *)
FwdRecv(s) ==
  /\ fwd[s] = "recv"
  /\ rxNext[s] < head
  /\ LET r == Recv(rxNext[s], head) IN
       IF r.ok
         THEN /\ fwd' = [fwd EXCEPT ![s] = "sending"]
              /\ payload' = [payload EXCEPT ![s] = r.value]
              /\ rxNext' = [rxNext EXCEPT ![s] = r.next]
              /\ rxLive' = rxLive
         ELSE /\ fwd' = [fwd EXCEPT ![s] = "exited"]
              /\ payload' = payload
              /\ rxNext' = [rxNext EXCEPT ![s] = 0]
              /\ rxLive' = DropReceiver(rxLive, s)
  /\ UNCHANGED <<now, storeVars, ingVars, pubVars, sess, sent, histVars>>

(* The payload written twice. *)
FwdSendTwice(s) ==
  /\ fwd[s] = "sending"
  /\ sent' = [sent EXCEPT ![s] = Append(Append(@, payload[s]), payload[s])]
  /\ payload' = [payload EXCEPT ![s] = 0]
  /\ fwd' = [fwd EXCEPT ![s] = "recv"]
  /\ UNCHANGED <<now, storeVars, ingVars, pubVars, sess, rxLive, rxNext, histVars>>

\* ws_write.send(Message::Text(payload)).await returns Ok
FwdSendOk(s) ==
  /\ fwd[s] = "sending"
  /\ sent' = [sent EXCEPT ![s] = Append(@, payload[s])]
  /\ payload' = [payload EXCEPT ![s] = 0]
  /\ fwd' = [fwd EXCEPT ![s] = "recv"]
  /\ UNCHANGED <<now, storeVars, ingVars, pubVars, sess, rxLive, rxNext, histVars>>

(* The forwarder's loop left on a write error, its Receiver kept. *)
FwdSendFailKeepsRx(s) ==
  /\ fwd[s] = "sending"
  /\ fwd' = [fwd EXCEPT ![s] = "exited"]
  /\ payload' = [payload EXCEPT ![s] = 0]
  /\ UNCHANGED <<rxNext, rxLive>>
  /\ UNCHANGED <<now, storeVars, ingVars, pubVars, sess, sent, histVars>>

\* ws_write.send(..).await returns Err: break
FwdSendFail(s) ==
  /\ fwd[s] = "sending"
  /\ fwd' = [fwd EXCEPT ![s] = "exited"]
  /\ payload' = [payload EXCEPT ![s] = 0]
  /\ rxNext' = [rxNext EXCEPT ![s] = 0]
  /\ rxLive' = DropReceiver(rxLive, s)
  /\ UNCHANGED <<now, storeVars, ingVars, pubVars, sess, sent, histVars>>

(* The slot of a connection whose two tasks are over. *)
SlotReleased(s) ==
  /\ sess' = [sess EXCEPT ![s] = "idle"]
  /\ fwd' = [fwd EXCEPT ![s] = "none"]
  /\ payload' = [payload EXCEPT ![s] = 0]
  /\ rxNext' = [rxNext EXCEPT ![s] = 0]
  /\ sent' = [sent EXCEPT ![s] = <<>>]
  /\ rxLive' = DropReceiver(rxLive, s)

(* One reader's close aborting every running forwarder. *)
ReaderCloseAbortsAll(s) ==
  /\ sess[s] = "open"
  /\ sess' = [t \in Slots |->
               IF sess[t] = "open" /\ fwd[t] \in {"recv", "sending"} THEN "closing"
               ELSE IF t = s THEN "idle" ELSE sess[t]]
  /\ fwd' = [fwd EXCEPT ![s] = IF @ = "exited" THEN "none" ELSE @]
  /\ sent' = [sent EXCEPT ![s] = IF fwd[s] = "exited" THEN <<>> ELSE @]
  /\ UNCHANGED <<payload, rxNext, rxLive>>
  /\ UNCHANGED <<now, storeVars, ingVars, pubVars, histVars>>

(* The reader loop ends (close frame, read error or end of stream), then   *)
(* writer_task.abort().  abort() only requests the cancellation: a         *)
(* forwarder that has not finished is dropped when the runtime next        *)
(* handles its task; one that has finished is not affected.                *)
ReaderClose(s) ==
  /\ sess[s] = "open"
  /\ IF fwd[s] \in {"recv", "sending"}
       THEN /\ sess' = [sess EXCEPT ![s] = "closing"]
            /\ UNCHANGED <<fwd, payload, rxNext, sent, rxLive>>
       ELSE SlotReleased(s)
  /\ UNCHANGED <<now, storeVars, ingVars, pubVars, histVars>>

\* the runtime drops the aborted writer_task, with rx and ws_write
FwdCancelled(s) ==
  /\ sess[s] = "closing"
  /\ SlotReleased(s)
  /\ UNCHANGED <<now, storeVars, ingVars, pubVars, histVars>>

Sessions(S) ==
  \E s \in S :
    \/ Accept(s) \/ HandshakeFail(s) \/ HandshakeOk(s)
    \/ FwdRecv(s) \/ FwdSendOk(s) \/ FwdSendFail(s)
    \/ ReaderClose(s) \/ FwdCancelled(s)

----------------------------------------------------------------------------

Init ==
  /\ now = StartTime
  /\ snapshot = BridgeSnapshotDefault
  /\ lock = "free"
  /\ ingPc = "connect"
  /\ cache = StateCacheDefault
  /\ frame = NoFrame
  /\ last_dispatch = 0
  /\ wakeAt = 0
  /\ pubPc = "tick"
  /\ pubCopy = BridgeSnapshotDefault
  /\ head = 0
  /\ sess = [s \in Slots |-> "idle"]
  /\ fwd = [s \in Slots |-> "none"]
  /\ rxLive = [s \in Slots |-> FALSE]
  /\ rxNext = [s \in Slots |-> 0]
  /\ payload = [s \in Slots |-> 0]
  /\ sent = [s \in Slots |-> <<>>]
  /\ stable = BridgeSnapshotDefault
  /\ copy_base = BridgeSnapshotDefault
  /\ prev_ground = None
  /\ first_of_conn = TRUE
  /\ proc_baseline = None
  /\ conn_baseline = None
  /\ failedAt = 0
  /\ pub_time = 0
  /\ rep_base = None
  /\ rereqs = <<>>
  /\ conn_seen = [fast |-> FALSE, roll |-> FALSE]

(* update_snapshot as a function of the stored snapshot it is given: the   *)
(* ingestion thread alone, started on each of StartSnapshots.              *)
InitPass ==
  /\ snapshot \in StartSnapshots
  /\ stable = snapshot
  /\ now = StartTime
  /\ lock = "free"
  /\ ingPc = "connect"
  /\ cache = StateCacheDefault
  /\ frame = NoFrame
  /\ last_dispatch = 0
  /\ wakeAt = 0
  /\ pubPc = "tick"
  /\ pubCopy = BridgeSnapshotDefault
  /\ head = 0
  /\ sess = [s \in Slots |-> "idle"]
  /\ fwd = [s \in Slots |-> "none"]
  /\ rxLive = [s \in Slots |-> FALSE]
  /\ rxNext = [s \in Slots |-> 0]
  /\ payload = [s \in Slots |-> 0]
  /\ sent = [s \in Slots |-> <<>>]
  /\ copy_base = BridgeSnapshotDefault
  /\ prev_ground = None
  /\ first_of_conn = TRUE
  /\ proc_baseline = None
  /\ conn_baseline = None
  /\ failedAt = 0
  /\ pub_time = 0
  /\ rep_base = None
  /\ rereqs = <<>>
  /\ conn_seen = [fast |-> FALSE, roll |-> FALSE]
NextPass == Ingest(Frames) \/ Tick
SpecPass == InitPass /\ [][NextPass]_vars

(* The ingestion thread alone on the long clock: the dispatch loop. *)
NextStale == Ingest(TinyFrames) \/ TickStale
SpecStale == Init /\ [][NextStale]_vars

(* The ingestion thread alone, over the full frame set. *)
NextDerive == Ingest(Frames) \/ Tick
SpecDerive == Init /\ [][NextDerive]_vars

(* Ingestion thread and publisher: the two users of the mutex. *)
NextStore == Ingest(SmallFrames) \/ Publisher \/ Tick
SpecStore == Init /\ [][NextStore]_vars

(* Publisher and connections: the users of the broadcast channel. *)
NextFan == Publisher \/ Sessions(Slots)
SpecFan == Init /\ [][NextFan]_vars

(* The whole process, with one connection slot. *)
Next == Ingest(TinyFrames) \/ Publisher \/ Sessions({1}) \/ Tick
Spec == Init /\ [][Next]_vars

----------------------------------------------------------------------------
(* Claims *)

IngPcs ==
  { "connect", "register", "request", "dispatch", "stale_sleep", "backoff",
    "lock_liftoff", "write_liftoff", "lock_touchdown", "write_touchdown",
    "lock_final", "write_final" }

(* Positions at which the ingestion thread is suspended: a blocking call   *)
(* into the source, or a sleep.                                            *)
IngSuspended == {"connect", "register", "request", "dispatch", "stale_sleep", "backoff"}

(* C1: every snapshot copy taken by the publisher holds all of an update's *)
(* field changes or none of them: apart from the time stamp it equals the  *)
(* stored snapshot as it was at an update boundary.                        *)
C1_NoTornRead ==
  pubPc = "send" => SansTime(pubCopy) = copy_base

(* C4: the publisher's tick is never blocked from outside: the ingestion   *)
(* thread holds the mutex only between an acquisition and the write that   *)
(* follows it, never at a suspension point, so a publisher waiting for the *)
(* mutex is let in by the ingestion thread's very next step; the copy and  *)
(* the send are enabled whatever the connections and the ingestion thread  *)
(* are doing.                                                              *)
C4_TickNeverBlocked ==
  /\ lock = "ingest" =>
       /\ ingPc \in {"write_liftoff", "write_touchdown", "write_final"}
       /\ ENABLED (WriteLiftoff \/ WriteTouchdown \/ WriteFinal)
  /\ lock = "pub" => pubPc = "locked"
  /\ ingPc \in IngSuspended => lock # "ingest"
  /\ pubPc = "lock" => (lock = "ingest" \/ ENABLED PubLock)
  /\ pubPc = "locked" => ENABLED PubCopy
  /\ pubPc = "send" => ENABLED PubSend

(* C4 witness: the publisher sends while the ingestion thread is in its    *)
(* reconnect backoff and the one subscriber is slow, its buffer full.      *)
C4_Witness ==
  /\ pubPc = "send"
  /\ ingPc = "backoff"
  /\ fwd[1] = "sending"
  /\ head - rxNext[1] = BufCap

(* The ingestion thread is not over: it can take a step, or waits for the  *)
(* mutex the publisher holds, or for the end of the backoff.               *)
C10_IngestLive ==
  /\ ingPc \in IngPcs
  /\ \/ ENABLED Ingest(SmallFrames)
     \/ ingPc \in {"lock_liftoff", "lock_touchdown", "lock_final"} /\ lock = "pub"
     \/ ingPc = "backoff" /\ now < wakeAt

(* C10: the supervisor retries forever.  The thread is never over; every   *)
(* source failure leads to the backoff sleep of RETRY_DELAY; and a new     *)
(* connection attempt starts only out of that sleep, no earlier than       *)
(* RETRY_DELAY after the failure.                                          *)
C10_RetryForever ==
  /\ []C10_IngestLive
  /\ [][ /\ SourceFails => (ingPc' = "backoff" /\ wakeAt' = now + RETRY_DELAY)
         /\ (ingPc' = "connect" /\ ingPc # "connect") =>
              (ingPc = "backoff" /\ now >= failedAt + RETRY_DELAY) ]_vars

(* C10 witness: a new attempt starts after a failure and its backoff.      *)
C10_Witness ==
  /\ ingPc = "connect"
  /\ failedAt >= StartTime
  /\ now >= failedAt + RETRY_DELAY

(* C2: a forwarder waiting in rx.recv() leaves its loop only when it is    *)
(* cancelled after its reader closed the session (the channel itself never *)
(* closes, main keeps the Sender); in particular a forwarder that lagged   *)
(* goes on relaying.                                                       *)
C2_LagNeverEndsForwarder ==
  [][ \A s \in Slots :
        (fwd[s] = "recv" /\ fwd'[s] # "recv") =>
          (fwd'[s] = "sending" \/ sess[s] = "closing") ]_vars

(* Tick k lies between the first and the last tick sent to s; it was sent  *)
(* to s.                                                                   *)
InSpan(s, k) == sent[s] # <<>> /\ sent[s][1] <= k /\ k <= sent[s][Len(sent[s])]
WasSent(s, k) == \E i \in 1..Len(sent[s]) : sent[s][i] = k

(* C3: what a forwarder has written is a subsequence of the published      *)
(* ticks, in publication order and without duplicates; over the ticks that *)
(* lie in the spans of two sessions, both were sent the same ticks.        *)
C3_FanoutOrder ==
  /\ \A s \in Slots : \A i \in 1..Len(sent[s]) :
       /\ sent[s][i] \in 1..head
       /\ i > 1 => sent[s][i - 1] < sent[s][i]
  /\ \A s \in Slots, t \in Slots : \A k \in 1..head :
       (InSpan(s, k) /\ InSpan(t, k)) => (WasSent(s, k) <=> WasSent(t, k))

(* C3 witness: two sessions that subscribed at different ticks have both   *)
(* been sent two ticks or more.                                            *)
C3_Witness ==
  /\ Len(sent[1]) >= 2
  /\ Len(sent[2]) >= 2
  /\ sent[1][1] < sent[2][1]

(* C5: the steps by which a connection is closed (its reader ends, its     *)
(* aborted forwarder is dropped) end that session's two tasks and change   *)
(* nothing else: not the store, the derivation state, the publisher or the *)
(* channel, nor any variable of another session.                           *)
C5_CloseIsLocal ==
  [][ \A s \in Slots :
        ( \/ sess[s] = "open" /\ sess'[s] # "open"
          \/ sess[s] = "closing" /\ sess'[s] # "closing" ) =>
          /\ UNCHANGED <<now, snapshot, lock, ingVars, pubVars, histVars>>
          /\ \A t \in Slots \ {s} :
               /\ sess'[t] = sess[t]
               /\ fwd'[t] = fwd[t]
               /\ rxLive'[t] = rxLive[t]
               /\ rxNext'[t] = rxNext[t]
               /\ payload'[t] = payload[t]
               /\ sent'[t] = sent[t]
          /\ sess'[s] \in {"closing", "idle"}
          /\ sess'[s] = "idle" => (fwd'[s] = "none" /\ ~rxLive'[s]) ]_vars

(* C5 witness: session 1 was closed by its reader while session 2 is open, *)
(* subscribed, and has a message in flight.                                *)
C5_Witness ==
  /\ sess[1] = "closing"
  /\ sess[2] = "open"
  /\ rxLive[2]
  /\ fwd[2] = "sending"
  /\ sent[2] # <<>>

----------------------------------------------------------------------------
(* Claims about update_snapshot.  A call is complete at the step from      *)
(* "write_final" back to "dispatch"; until then stable holds the stored    *)
(* fields as they were when the call began.                                *)

UpdateDone == ingPc = "write_final" /\ ingPc' = "dispatch"

FrameOnGround == frame.on_ground = 1
FrameRunning ==
  \E v \in {frame.eng1_on, frame.eng2_on, frame.eng3_on, frame.eng4_on} : v = 1
FrameFuelKg == frame.fuel_total_lb * KG_PER_LB

(* C6, as claimed: touchdown_fpm follows the ground state of the frame     *)
(* compared with the ground state of the frame before it: cleared on       *)
(* ground-to-air, set to the frame's vertical speed on air-to-ground, left *)
(* alone when both are equal.                                              *)
C6_TouchdownFollowsFrames ==
  [][ (UpdateDone /\ prev_ground # None) =>
        LET prev == prev_ground[1] IN
        /\ (prev /\ ~FrameOnGround) => snapshot'.touchdown_fpm = None
        /\ (~prev /\ FrameOnGround) => snapshot'.touchdown_fpm = Some(frame.vs_fpm)
        /\ (prev = FrameOnGround) => snapshot'.touchdown_fpm = stable.touchdown_fpm ]_vars

(* The ground state of the previous frame of the same source connection,   *)
(* airborne for the first frame after a (re)connect.                       *)
C6_PrevGround == IF first_of_conn THEN FALSE ELSE prev_ground[1]

(* C6, amended: relative to the previous frame of the same connection      *)
(* (airborne for the first frame after a (re)connect), touchdown_fpm is    *)
(* cleared exactly on ground-to-air, set to the frame's vertical speed     *)
(* exactly on air-to-ground and otherwise left alone; cache.last_on_ground *)
(* keeps the previous value until both tests are done and holds the        *)
(* frame's value when the call returns.                                    *)
C6_TouchdownFollowsConnection ==
  [][ /\ UpdateDone =>
           /\ (C6_PrevGround /\ ~FrameOnGround) => snapshot'.touchdown_fpm = None
           /\ (~C6_PrevGround /\ FrameOnGround) =>
                snapshot'.touchdown_fpm = Some(frame.vs_fpm)
           /\ (C6_PrevGround = FrameOnGround) =>
                snapshot'.touchdown_fpm = stable.touchdown_fpm
           /\ cache'.last_on_ground = FrameOnGround
      /\ ingPc \in {"lock_liftoff", "write_liftoff", "lock_touchdown", "write_touchdown"} =>
           cache.last_on_ground = C6_PrevGround ]_vars

(* C6 witness: a liftoff frame, following a ground frame of the same       *)
(* connection, has cleared a stored touchdown rate and is about to return. *)
C6_Witness ==
  /\ ingPc = "write_final"
  /\ ~first_of_conn
  /\ prev_ground = Some(TRUE)
  /\ ~FrameOnGround
  /\ stable.touchdown_fpm = Some(-300)
  /\ snapshot.touchdown_fpm = None

(* C7, as claimed: once the published takeoff_roll_time_utc has a value no *)
(* later step changes or clears it.                                        *)
C7_WriteOnce ==
  [][ snapshot.takeoff_roll_time_utc # None =>
        snapshot'.takeoff_roll_time_utc = snapshot.takeoff_roll_time_utc ]_vars

(* C7, amended: once a frame of the current source connection has          *)
(* published a takeoff_roll_time_utc, no later frame of that connection    *)
(* changes or clears it.                                                   *)
C7_WriteOncePerConnection ==
  [][ (~first_of_conn /\ snapshot.takeoff_roll_time_utc # None) =>
        snapshot'.takeoff_roll_time_utc = snapshot.takeoff_roll_time_utc ]_vars

(* C7 witness: the stamp is published, the previous frame of the           *)
(* connection was slower than 35 kt, the current one is a ground roll      *)
(* above 35 kt again, and the clock now shows another minute.              *)
C7_Witness ==
  /\ ingPc = "write_final"
  /\ ~first_of_conn
  /\ snapshot.takeoff_roll_time_utc # None
  /\ snapshot.gs_kt = Some(20)
  /\ FrameOnGround
  /\ frame.gs_kt > GS_ROLL_KT
  /\ snapshot.takeoff_roll_time_utc # Some(FormatHM(now))

(* max(0, baseline - current fuel mass), unknown without a baseline. *)
C8_BurnOf(baseline) ==
  IF baseline = None THEN None
  ELSE IF baseline[1] > FrameFuelKg THEN Some(baseline[1] - FrameFuelKg) ELSE Some(0)

(* C8, as claimed: the baseline is the fuel mass of the first frame with   *)
(* an engine running, it is recorded at most once, and after every frame   *)
(* fuel_burn_kg is unknown without a baseline and max(0, baseline - fuel)  *)
(* with one.                                                               *)
C8_FuelBurnFollowsBaseline ==
  [][ /\ UpdateDone => snapshot'.fuel_burn_kg = C8_BurnOf(proc_baseline')
      /\ (cache.fuel_start_kg = None /\ cache'.fuel_start_kg # None) =>
           proc_baseline = None ]_vars

(* C8, amended: the same, for the frames of one source connection: the     *)
(* baseline is the fuel mass of the first frame of the connection with an  *)
(* engine running and is recorded at most once per connection; a reconnect *)
(* discards it.                                                            *)
C8_FuelBurnFollowsConnectionBaseline ==
  [][ /\ UpdateDone =>
           /\ snapshot'.fuel_burn_kg = C8_BurnOf(conn_baseline')
           /\ cache'.fuel_start_kg = conn_baseline'
      /\ (cache.fuel_start_kg # None /\ ingPc # "request") =>
           cache'.fuel_start_kg = cache.fuel_start_kg ]_vars

(* C8 witness: a frame whose fuel mass is above the baseline was           *)
(* published with a fuel burn of zero.                                     *)
C8_Witness ==
  /\ ingPc = "dispatch"
  /\ conn_baseline # None
  /\ snapshot.fuel_total_kg # None
  /\ snapshot.fuel_total_kg[1] > conn_baseline[1]
  /\ snapshot.fuel_burn_kg = Some(0)

(* The phase rules, each with the conditions that make it the first to    *)
(* match.                                                                  *)
C9_Phase ==
  LET gs  == frame.gs_kt
      alt == frame.altitude_ft
      vs  == frame.vs_fpm
      climbing == alt < 10000 /\ vs > 500
  IN CASE ~FrameRunning -> "Waiting"
       [] FrameRunning /\ FrameOnGround /\ gs < 5 -> "Engine Start"
       [] FrameRunning /\ FrameOnGround /\ gs >= 5 /\ gs < 35 -> "Taxiing"
       [] FrameRunning /\ FrameOnGround /\ gs >= 35 -> "Takeoff Roll"
       [] FrameRunning /\ ~FrameOnGround /\ climbing -> "Climb"
       [] FrameRunning /\ ~FrameOnGround /\ ~climbing /\ vs < -500 -> "Descent"
       [] FrameRunning /\ ~FrameOnGround /\ ~climbing /\ vs >= -500 -> "Cruising"

(* C9: after every frame the published phase is the first-match           *)
(* classification of that frame alone, whatever the derivation state and   *)
(* whatever frames came before.                                            *)
C9_PhaseOfFrameOnly ==
  [][ UpdateDone => snapshot'.phase = Some(C9_Phase) ]_vars

(* C9 witness: a taxi frame published as "Taxiing" by a derivation state   *)
(* that has a takeoff-roll stamp, a fuel baseline and a touchdown behind   *)
(* it.                                                                     *)
C9_Witness ==
  /\ ingPc = "dispatch"
  /\ snapshot.phase = Some("Taxiing")
  /\ cache.takeoff_roll_time_utc # None
  /\ cache.fuel_start_kg # None
  /\ snapshot.touchdown_fpm = Some(-300)
  /\ ~first_of_conn

----------------------------------------------------------------------------
(* Claims about the ownership of the store and of the channel *)

(* C11: the ingestion thread is the only writer of the stored snapshot:    *)
(* every step that changes any of its fields, the time included, is one of *)
(* the three writes of update_snapshot; the publisher and the connection   *)
(* tasks leave it as the last ingestion write left it.                     *)
C11_IngestionSoleWriter ==
  [][ snapshot' # snapshot =>
        /\ ingPc \in {"write_liftoff", "write_touchdown", "write_final"}
        /\ ingPc' # ingPc
        /\ UNCHANGED <<pubVars, sessVars>> ]_vars

C12_LiveReceivers == {s \in Slots : rxLive[s]}

(* Connections whose task pair is not over yet and whose forwarder has not *)
(* left its loop.                                                          *)
C12_Holders == {s \in Slots : sess[s] # "idle" /\ fwd[s] # "exited"}

C13_SubscribeAfterHandshake ==
  /\ [](\A s \in Slots : sess[s] = "handshake" => ~rxLive[s])
  /\ [][ \A s \in Slots :
           /\ (sess[s] = "handshake" /\ sess'[s] = "open") =>
                (rxLive'[s] /\ rxNext'[s] = head')
           /\ (sess[s] = "handshake" /\ sess'[s] = "idle") =>
                /\ UNCHANGED <<now, storeVars, ingVars, pubVars, histVars>>
                /\ UNCHANGED <<rxLive, rxNext, fwd, payload, sent>> ]_vars

(* C14: the time stamp never goes backwards.  With a non-decreasing wall   *)
(* clock no step lowers the time field of the stored snapshot, whichever   *)
(* thread takes it; the stored time is never ahead of the clock; and every *)
(* message sent on the channel carries a time no lower than the message    *)
(* sent before it.                                                         *)
C14_TimeNeverBackwards ==
  /\ [](snapshot.time <= unix_time_ms /\ pub_time <= snapshot.time)
  /\ [][ /\ now' >= now
         /\ snapshot'.time >= snapshot.time
         /\ head' # head => (pub_time' = pubCopy.time /\ pub_time' >= pub_time) ]_vars

(* C14 witness: a message is about to be sent whose time is later than     *)
(* that of the message before it; between the two the source failed, was   *)
(* connected again and an update was written.                              *)
C14_Witness ==
  /\ pubPc = "send"
  /\ pub_time > 0
  /\ pubCopy.time > pub_time
  /\ failedAt * 1000 >= pub_time
  /\ ingPc = "dispatch"
  /\ ~first_of_conn
  /\ pubCopy.phase # None

----------------------------------------------------------------------------
(* Further claims about update_snapshot *)

(* C15: derivation is idempotent on a repeated frame.  When a call of      *)
(* update_snapshot is given the frame of the call before it, on the        *)
(* StateCache that call left, with an engine running and the fuel baseline *)
(* set, then at its return every stored field other than the time          *)
(* (touchdown_fpm, takeoff_roll_time_utc, phase, fuel_burn_kg and the      *)
(* copied values) and the StateCache are what the first call left,         *)
(* whatever the clock shows by then.                                       *)
C15_RepeatIsIdempotent ==
  [][ (UpdateDone /\ rep_base # None /\ FrameRunning /\ rep_base[1].fuel_start_kg # None) =>
        /\ SansTime(snapshot') = stable
        /\ cache' = rep_base[1] ]_vars

(* C15 witness: a takeoff-roll frame, engines running, is being processed  *)
(* a second time; the first call stamped the takeoff-roll time and set     *)
(* touchdown_fpm and the baseline, and the clock has since moved to        *)
(* another minute.                                                         *)
C15_Witness ==
  /\ ingPc = "write_final"
  /\ rep_base # None
  /\ FrameRunning
  /\ FrameOnGround
  /\ frame.gs_kt > GS_ROLL_KT
  /\ stable.touchdown_fpm = Some(frame.vs_fpm)
  /\ stable.takeoff_roll_time_utc # None
  /\ stable.takeoff_roll_time_utc # Some(FormatHM(now))
  /\ stable.fuel_burn_kg = Some(0)

(* No call of update_snapshot has written to the store yet.                *)
C16_NothingWritten ==
  /\ prev_ground = None
  /\ ingPc \in IngSuspended \cup {"lock_liftoff", "lock_touchdown"}

(* C16: fields not derived from a frame pass through untouched.  No step   *)
(* of the ingestion thread, for any frame and any StateCache, changes      *)
(* heading_deg, lat, lon, dep_icao, arr_icao or next_wp_id of the stored   *)
(* snapshot, whether they are unknown or set; and every field              *)
(* update_snapshot assigns is unknown until its first write.               *)
C16_PassThroughUntouched ==
  /\ [][ PassThrough(snapshot') = PassThrough(snapshot) ]_vars
  /\ [](C16_NothingWritten =>
          \A i \in 1..Len(Derived(snapshot)) : Derived(snapshot)[i] = None)

(* C16 witness: the pass-through fields are set, and a second call of      *)
(* update_snapshot, after a touchdown and a takeoff-roll stamp, has        *)
(* written all its fields and is about to return.                          *)
C16_Witness ==
  /\ ingPc = "write_final"
  /\ ~first_of_conn
  /\ PassThrough(snapshot) = PassThrough(PopulatedSnapshot)
  /\ snapshot.touchdown_fpm # None
  /\ snapshot.takeoff_roll_time_utc # None
  /\ snapshot.fuel_burn_kg # None
  /\ snapshot.phase = Some("Climb")

----------------------------------------------------------------------------
(* Claims about the dispatch loop *)

C17_InCall ==
  { "lock_liftoff", "write_liftoff", "lock_touchdown", "write_touchdown",
    "lock_final", "write_final" }

(* C17: stale-source handling.  A dispatch that is not data issues the     *)
(* request again exactly when more than STALE_AFTER has passed since the   *)
(* last data frame or re-request (or the loop's start), and then resets    *)
(* the staleness clock, otherwise leaves it alone; either way the thread   *)
(* sleeps before it calls dispatch again.  Two re-requests with no data    *)
(* frame between them are more than STALE_AFTER apart.  A data frame       *)
(* resets the staleness clock and is processed without a sleep.            *)
C17_StaleHandling ==
  [][ /\ (ingPc = "dispatch" /\ ingPc' = "stale_sleep") =>
           IF now - last_dispatch > STALE_AFTER
             THEN last_dispatch' = now /\ rereqs' = Append(rereqs, now)
             ELSE UNCHANGED <<last_dispatch, rereqs>>
      /\ (ingPc = "dispatch" /\ ingPc' # "dispatch") =>
           ingPc' \in C17_InCall \cup {"stale_sleep", "backoff"}
      /\ (ingPc # "dispatch" /\ ingPc' = "dispatch") =>
           ingPc \in {"request", "write_final", "stale_sleep"}
      /\ (ingPc = "dispatch" /\ ingPc' \in C17_InCall) =>
           (last_dispatch' = now /\ rereqs' = <<>>)
      /\ \A i \in 1..Len(rereqs') :
           i > 1 => rereqs'[i] - rereqs'[i - 1] > STALE_AFTER ]_vars

(* C17 witness: the source has been silent long enough for a second        *)
(* re-request, just issued; the thread is in its sleep.                    *)
C17_Witness ==
  /\ ingPc = "stale_sleep"
  /\ Len(rereqs) = 2
  /\ rereqs[2] = now
  /\ last_dispatch = now
  /\ ~first_of_conn

(* C18: the derivation state is fresh on each reconnect.  Every            *)
(* connection enters its dispatch loop with the default StateCache         *)
(* (last_on_ground false, no takeoff-roll time, no fuel baseline) and      *)
(* keeps it until its first frame, whatever the StateCache of the          *)
(* connection before it was; and from the failure until the first frame of *)
(* the new connection is processed the stored snapshot keeps the values    *)
(* the last update left.                                                   *)
C18_FreshOnReconnect ==
  /\ [][ (ingPc = "request" /\ ingPc' = "dispatch") =>
           (cache' = StateCacheDefault /\ snapshot' = snapshot) ]_vars
  /\ []((ingPc = "dispatch" /\ first_of_conn) => cache = StateCacheDefault)
  /\ []((ingPc \in IngSuspended) => SansTime(snapshot) = stable)

(* C18 witness: a connection that had seen a touchdown, a takeoff roll and *)
(* an engine start failed with the aircraft on the ground; the next        *)
(* connection waits for its first frame with the default StateCache while  *)
(* the store still holds the old values.                                   *)
C18_Witness ==
  /\ ingPc = "dispatch"
  /\ first_of_conn
  /\ failedAt >= StartTime
  /\ prev_ground = Some(TRUE)
  /\ proc_baseline # None
  /\ snapshot.takeoff_roll_time_utc # None
  /\ snapshot.touchdown_fpm # None
  /\ snapshot.fuel_burn_kg # None
  /\ cache = StateCacheDefault

(* C19: the first frame after a connect is compared with an airborne       *)
(* previous state.  If it reports on-ground it is taken for a touchdown:   *)
(* at the return of its call touchdown_fpm is that frame's vertical speed, *)
(* whatever frame the process saw last; if it reports airborne,            *)
(* touchdown_fpm is what it was before the call: the first frame never     *)
(* clears it.                                                              *)
C19_FirstFrameIsTouchdown ==
  [][ (UpdateDone /\ first_of_conn) =>
        /\ FrameOnGround => snapshot'.touchdown_fpm = Some(frame.vs_fpm)
        /\ ~FrameOnGround => snapshot'.touchdown_fpm = stable.touchdown_fpm
        /\ snapshot'.touchdown_fpm = None => stable.touchdown_fpm = None ]_vars

(* C19 witness: the last frame before the source failed was on the ground; *)
(* the first frame of the next connection, on the ground too, has replaced *)
(* the stored touchdown rate by its own vertical speed.                    *)
C19_Witness ==
  /\ ingPc = "write_final"
  /\ first_of_conn
  /\ failedAt >= StartTime
  /\ prev_ground = Some(TRUE)
  /\ FrameOnGround
  /\ stable.touchdown_fpm = Some(0)
  /\ snapshot.touchdown_fpm = Some(-300)

(* C20, as claimed: in every snapshot update_snapshot has written, a phase *)
(* of "Takeoff Roll" comes with a takeoff_roll_time_utc, and a             *)
(* takeoff_roll_time_utc only after some frame of the current connection   *)
(* was published as "Takeoff Roll".                                        *)
C20_PhaseMarkerAgree ==
  [][ UpdateDone =>
        /\ snapshot'.phase = Some("Takeoff Roll") =>
             snapshot'.takeoff_roll_time_utc # None
        /\ snapshot'.takeoff_roll_time_utc # None => conn_seen'.roll ]_vars

(* C20, amended: in every snapshot update_snapshot has written, a phase of *)
(* "Takeoff Roll" on a frame faster than 35 kt comes with a                *)
(* takeoff_roll_time_utc (at exactly 35 kt the phase is "Takeoff Roll" and *)
(* the marker is not taken), and a takeoff_roll_time_utc only after some   *)
(* frame of the current connection was on the ground faster than 35 kt,    *)
(* whether an engine was running, and the frame published as "Takeoff      *)
(* Roll", or not, and the frame published as "Waiting".                    *)
C20_MarkerFollowsFastRoll ==
  [][ UpdateDone =>
        /\ (snapshot'.phase = Some("Takeoff Roll") /\ frame.gs_kt > 35) =>
             snapshot'.takeoff_roll_time_utc # None
        /\ snapshot'.takeoff_roll_time_utc # None => conn_seen'.fast ]_vars

(* C20 witness: a frame at exactly 35 kt, engines running, is published as *)
(* "Takeoff Roll" with a takeoff_roll_time_utc that an earlier frame of    *)
(* the connection, faster than 35 kt with no engine running, had stamped.  *)
C20_Witness ==
  /\ ingPc = "write_final"
  /\ frame.gs_kt = 35
  /\ FrameRunning
  /\ cache.takeoff_roll_time_utc # None
  /\ stable.takeoff_roll_time_utc = cache.takeoff_roll_time_utc
  /\ conn_seen = [fast |-> TRUE, roll |-> FALSE]

====
